---- MODULE Spec2Model ----
(***************************************************************************)
(* Model of src/market.py: the EIA international supply pipeline           *)
(*   run -> fetch_all_pages -> normalize_monthly -> write_parquet(monthly) *)
(*       -> build_annual_from_monthly -> write_parquet(annual).            *)
(*                                                                         *)
(* Encoding of data.  A cell of a record or of a DataFrame is a tuple:     *)
(* <<>> is a missing cell (None / NaN / NaT), <<n>> an identifier or a     *)
(* number, <<y, m>> the text "YYYY-MM", <<y, m, d>> the text "YYYY-MM-DD"  *)
(* and, once parsed, the calendar date.  The raw "value" of a record is    *)
(* <<"num", n>> (a JSON number), <<"numstr", n>> (a JSON string holding a  *)
(* number) or <<"str", 0>> (a JSON string holding no number).  Identifier  *)
(* and unit codes are integers standing for the API's codes, so that the   *)
(* sorted output of groupby can be computed.                               *)
(***************************************************************************)
EXTENDS Integers, Sequences, FiniteSets, TLC

VARIABLES
    pc,            \* position of the run: idle, credential, fetch, normalize,
                   \* write_monthly, aggregate, write_annual, done, failed
    api_key_env,   \* whether EIA_API_KEY holds a non-blank value
    server,        \* the records the API holds for the requested series
    length,        \* cfg.length
    offset,        \* fetch_all_pages: offset
    rows,          \* fetch_all_pages: rows
    requests,      \* the GET requests issued, in order
    sleeps,        \* the number of time.sleep(cfg.sleep_s) calls
    df_raw,        \* run: df_raw
    df_month,      \* run: df_month
    df_year,       \* run: df_year
    file_month,    \* fact_supply_country_month.parquet
    file_year,     \* fact_supply_country_year.parquet
    curated,       \* whether <base>/data/curated exists
    error,         \* the error that ended the run, "none" if none
    err_missing,   \* the missing columns the ValueError names
    err_got,       \* the columns the ValueError reports as present
    stages,        \* the stages of this run that have ended, in order
    printed        \* the row counts of the final report, <<>> if none

vars == <<pc, api_key_env, server, length, offset, rows, requests, sleeps,
          df_raw, df_month, df_year, file_month, file_year, curated, error,
          err_missing, err_got, stages, printed>>

(***************************************************************************)
(* Bounds of the model.                                                    *)
(***************************************************************************)
MaxLength == 3
MaxStored == 5
MaxPipeStored == 2
MaxRows == 3

(***************************************************************************)
(* Data.                                                                   *)
(***************************************************************************)
Null == <<>>

expected == <<"period", "value", "activityId", "productId", "unit", "countryRegionId">>

optional == <<"countryRegionName", "productName", "activityName">>

Range(s) == {s[i] : i \in DOMAIN s}

Min(a, b) == IF a < b THEN a ELSE b

SeqsUpTo(S, n) == UNION {[1..k -> S] : k \in 0..n}

Without(r, ks) == [f \in DOMAIN r \ ks |-> r[f]]

RawRecord(p, v, c) ==
    [period |-> p, value |-> v, activityId |-> <<7>>, productId |-> <<2>>,
     unit |-> <<1>>, countryRegionId |-> c]

Base == RawRecord(<<2020, 5>>, <<"num", 10>>, <<1>>)

(***************************************************************************)
(* pd.DataFrame(rows): the columns are the keys of all the records, and a  *)
(* record without a key has a missing cell in that column.                 *)
(***************************************************************************)
Columns(recs) == UNION {DOMAIN recs[i] : i \in DOMAIN recs}

DataFrame(recs) ==
    [i \in DOMAIN recs |->
        [c \in Columns(recs) |-> IF c \in DOMAIN recs[i] THEN recs[i][c] ELSE Null]]

FrameColumns(df) == IF df = <<>> THEN {} ELSE DOMAIN df[1]

(***************************************************************************)
(* The API: it holds `server` and answers a request (offset, length) with  *)
(* the records offset .. min(offset + length, N) - 1; the data array of an *)
(* empty page may also be left out of the envelope.                        *)
(***************************************************************************)
Page(srv, off, len) == SubSeq(srv, off + 1, Min(off + len, Len(srv)))

Responses(srv, off, len) ==
    {[has_data |-> TRUE, data |-> Page(srv, off, len)]}
        \cup (IF Page(srv, off, len) = <<>>
              THEN {[has_data |-> FALSE, data |-> <<>>]}
              ELSE {})

\* js.get("response", {}).get("data", [])
DataOf(js) == IF js.has_data THEN js.data ELSE <<>>

Request(off, len) == [offset |-> off, length |-> len]

(***************************************************************************)
(* fetch_all_pages.                                                        *)
(***************************************************************************)
\* a loop that stops on an empty page only
IsLastPageOnlyEmpty(data, len) == data = <<>>

\* if not data: break ... if len(data) < cfg.length: break
IsLastPage(data, len) == data = <<>> \/ Len(data) < len

\* rows.extend(data), skipped by the break on an empty page
Extend(rs, data) == IF data = <<>> THEN rs ELSE rs \o data

\* an offset that steps over one record per page
NextOffsetSkip(off, len) == off + len + 1

\* offset += cfg.length
NextOffset(off, len) == off + len

\* a fetch that never reports an empty result
NoDataNever(rs) == FALSE

\* if not rows: raise RuntimeError(...)
NoData(rs) == rs = <<>>

\* a transport error that is answered by asking for the page again
FetchErrorRetry ==
    /\ pc = "fetch"
    /\ requests' = Append(requests, Request(offset, length))
    /\ UNCHANGED <<pc, api_key_env, server, length, offset, rows, sleeps, df_raw,
                   df_month, df_year, file_month, file_year, curated, error,
                   err_missing, err_got, stages, printed>>

\* r.raise_for_status() raises: the error leaves fetch_all_pages and run
FetchError ==
    /\ pc = "fetch"
    /\ requests' = Append(requests, Request(offset, length))
    /\ error' = "Transport"
    /\ pc' = "failed"
    /\ stages' = Append(stages, "fetch")
    /\ UNCHANGED <<api_key_env, server, length, offset, rows, sleeps, df_raw,
                   df_month, df_year, file_month, file_year, curated,
                   err_missing, err_got, printed>>

\* a full page: extend, advance the offset, sleep, loop
FetchFullPage ==
    /\ pc = "fetch"
    /\ \E js \in Responses(server, offset, length) :
          /\ ~IsLastPage(DataOf(js), length)
          /\ rows' = Extend(rows, DataOf(js))
    /\ requests' = Append(requests, Request(offset, length))
    /\ offset' = NextOffset(offset, length)
    /\ sleeps' = sleeps + 1
    /\ UNCHANGED <<pc, api_key_env, server, length, df_raw, df_month, df_year,
                   file_month, file_year, curated, error, err_missing, err_got,
                   stages, printed>>

\* an empty or short page: leave the loop, then raise or return the frame
FetchLastPage ==
    /\ pc = "fetch"
    /\ \E js \in Responses(server, offset, length) :
          /\ IsLastPage(DataOf(js), length)
          /\ rows' = Extend(rows, DataOf(js))
    /\ requests' = Append(requests, Request(offset, length))
    /\ stages' = Append(stages, "fetch")
    /\ IF NoData(rows')
       THEN /\ error' = "EmptyResult"
            /\ pc' = "failed"
            /\ UNCHANGED df_raw
       ELSE /\ df_raw' = DataFrame(rows')
            /\ pc' = "normalize"
            /\ UNCHANGED error
    /\ UNCHANGED <<api_key_env, server, length, offset, sleeps, df_month,
                   df_year, file_month, file_year, curated, err_missing,
                   err_got, printed>>

(***************************************************************************)
(* normalize_monthly.                                                      *)
(***************************************************************************)
\* a check that reports the first missing column only
MissingColumnsFirst(df) ==
    LET m == SelectSeq(expected, LAMBDA c : c \notin FrameColumns(df))
    IN  IF m = <<>> THEN <<>> ELSE <<Head(m)>>

\* missing = [c for c in expected if c not in df.columns]
MissingColumns(df) == SelectSeq(expected, LAMBDA c : c \notin FrameColumns(df))

\* keep = expected + [c for c in [...] if c in df.columns]
Keep(df) == Range(expected) \cup (Range(optional) \cap FrameColumns(df))

\* pd.to_numeric(..., errors="coerce"): a number, a string holding a number,
\* or NaN
ToNumeric(v) ==
    IF v # Null /\ v[1] \in {"num", "numstr"} THEN <<v[2]>> ELSE Null

\* astype(str): a string stays as it is, a missing cell becomes the text "nan"
AsStr(p) == IF p = Null THEN <<"nan">> ELSE p

\* df["period"] + "-01"
AppendDay(s) == Append(s, 1)

IsLeap(y) == (y % 4 = 0 /\ y % 100 # 0) \/ y % 400 = 0

DaysInMonth(y, m) ==
    IF m = 2 THEN (IF IsLeap(y) THEN 29 ELSE 28)
    ELSE IF m \in {4, 6, 9, 11} THEN 30 ELSE 31

\* a parser that takes any month number
ToDatetimeAnyMonth(s) == IF Len(s) = 3 /\ s[1] \in Nat THEN s ELSE Null

\* pd.to_datetime(..., errors="coerce") of the text "Y-M-D": the date, or NaT.
\* The periods of the model are texts "Y-M" (the shape the API gives for the
\* monthly frequency) or missing, so the text parsed is "Y-M-01" or "nan-01".
ToDatetime(s) ==
    IF /\ Len(s) = 3
       /\ s[1] \in Nat
       /\ s[2] \in 1..12
       /\ s[3] \in 1..DaysInMonth(s[1], s[2])
    THEN s
    ELSE Null

\* df.dropna(subset=[col])
DropNa(df, col) == SelectSeq(df, LAMBDA r : r[col] # Null)

\* the table normalize_monthly returns once the expected columns are there
NormalizedTable(df) ==
    LET kept     == [i \in DOMAIN df |-> [c \in Keep(df) |-> df[i][c]]]
        numeric  == [i \in DOMAIN kept |->
                        [kept[i] EXCEPT !.value = ToNumeric(@)]]
        valued   == DropNa(numeric, "value")
        dated    == [i \in DOMAIN valued |->
                        [valued[i] EXCEPT !.period = AsStr(@)]
                            @@ ("date" :> ToDatetime(AppendDay(AsStr(valued[i].period))))]
        parsed   == DropNa(dated, "date")
    IN  [i \in DOMAIN parsed |->
            parsed[i] @@ ("ingested_at" :> "now") @@ ("source_id" :> "EIA")]

Normalize ==
    /\ pc = "normalize"
    /\ stages' = Append(stages, "normalize")
    /\ IF MissingColumns(df_raw) # <<>>
       THEN /\ error' = "SchemaMismatch"
            /\ err_missing' = MissingColumns(df_raw)
            /\ err_got' = FrameColumns(df_raw)
            /\ pc' = "failed"
            /\ UNCHANGED df_month
       ELSE /\ df_month' = NormalizedTable(df_raw)
            /\ pc' = "write_monthly"
            /\ UNCHANGED <<error, err_missing, err_got>>
    /\ UNCHANGED <<api_key_env, server, length, offset, rows, requests, sleeps,
                   df_raw, df_year, file_month, file_year, curated, printed>>

(***************************************************************************)
(* build_annual_from_monthly.                                              *)
(***************************************************************************)
gcols == <<"year", "countryRegionId", "activityId", "productId", "unit">>

\* df["year"] = df["date"].dt.year
WithYear(df) == [i \in DOMAIN df |-> df[i] @@ ("year" :> <<df[i].date[1]>>)]

\* groupby leaves out the rows with a missing cell in a grouping column
Grouped(df) == SelectSeq(df, LAMBDA r : \A i \in DOMAIN gcols : r[gcols[i]] # Null)

GroupKey(r) == [i \in DOMAIN gcols |-> r[gcols[i]][1]]

LexLess(a, b) ==
    \E i \in DOMAIN a : a[i] < b[i] /\ \A j \in 1..(i - 1) : a[j] = b[j]

RECURSIVE SortKeys(_)
\* groupby(sort=True): the groups in ascending order of their keys
SortKeys(S) ==
    IF S = {} THEN <<>>
    ELSE LET m == CHOOSE x \in S : \A y \in S \ {x} : LexLess(x, y)
         IN  <<m>> \o SortKeys(S \ {m})

RECURSIVE SumSeq(_)
SumSeq(s) == IF s = <<>> THEN 0 ELSE s[1] + SumSeq(Tail(s))

RECURSIVE GCD(_, _)
GCD(a, b) == IF b = 0 THEN a ELSE GCD(b, a % b)

\* .mean(): the sum over the count, as a fraction in lowest terms
Mean(vals) ==
    LET s == SumSeq(vals)
        n == Len(vals)
        g == GCD(s, n)
    IN  <<s \div g, n \div g>>

GroupValues(df, k) ==
    LET members == SelectSeq(df, LAMBDA r : GroupKey(r) = k)
    IN  [i \in DOMAIN members |-> members[i].value[1]]

build_annual_from_monthly(df_m) ==
    LET df   == Grouped(WithYear(df_m))
        keys == SortKeys({GroupKey(df[i]) : i \in DOMAIN df})
    IN  [i \in DOMAIN keys |->
            [year |-> <<keys[i][1]>>,
             countryRegionId |-> <<keys[i][2]>>,
             activityId |-> <<keys[i][3]>>,
             productId |-> <<keys[i][4]>>,
             unit |-> <<keys[i][5]>>,
             value_avg_daily |-> Mean(GroupValues(df, keys[i])),
             method |-> "mean_of_months",
             ingested_at |-> "now",
             source_id |-> "EIA"]]

Aggregate ==
    /\ pc = "aggregate"
    /\ df_year' = build_annual_from_monthly(df_month)
    /\ stages' = Append(stages, "aggregate")
    /\ pc' = "write_annual"
    /\ UNCHANGED <<api_key_env, server, length, offset, rows, requests, sleeps,
                   df_raw, df_month, file_month, file_year, curated, error,
                   err_missing, err_got, printed>>

(***************************************************************************)
(* write_parquet and the stages of run that call it.                       *)
(***************************************************************************)
NoFile == [exists |-> FALSE, table |-> <<>>]

\* df.to_parquet(path, index=False): the file holds df, whatever it held
write_parquet(df, old) == [exists |-> TRUE, table |-> df]

WriteMonthly ==
    /\ pc = "write_monthly"
    /\ stages' = Append(stages, "write_monthly")
    /\ \/ /\ file_month' = write_parquet(df_month, file_month)
          /\ pc' = "aggregate"
          /\ UNCHANGED error
       \/ /\ error' = "Storage"
          /\ pc' = "failed"
          /\ UNCHANGED file_month
    /\ UNCHANGED <<api_key_env, server, length, offset, rows, requests, sleeps,
                   df_raw, df_month, df_year, file_year, curated, err_missing,
                   err_got, printed>>

WriteAnnual ==
    /\ pc = "write_annual"
    /\ stages' = Append(stages, "write_annual")
    /\ \/ /\ file_year' = write_parquet(df_year, file_year)
          /\ printed' = <<Len(df_month), Len(df_year)>>
          /\ pc' = "done"
          /\ UNCHANGED error
       \/ /\ error' = "Storage"
          /\ pc' = "failed"
          /\ UNCHANGED <<file_year, printed>>
    /\ UNCHANGED <<api_key_env, server, length, offset, rows, requests, sleeps,
                   df_raw, df_month, df_year, file_month, curated, err_missing,
                   err_got>>

(***************************************************************************)
(* run.                                                                    *)
(***************************************************************************)
PipeRecords ==
    {Base,
     RawRecord(<<2021, 1>>, <<"num", 20>>, <<1>>),
     RawRecord(<<2020, 5>>, <<"str", 0>>, <<1>>),
     Without(Base, {"unit"})}

\* run(base_dir) is called: the environment, the API's data and the page
\* length of the configuration are those of this run
StartRun ==
    /\ pc = "idle"
    /\ pc' = "credential"
    /\ api_key_env' \in BOOLEAN
    /\ server' \in SeqsUpTo(PipeRecords, MaxPipeStored)
    /\ length' \in 1..MaxLength
    /\ UNCHANGED <<offset, rows, requests, sleeps, df_raw, df_month, df_year,
                   file_month, file_year, curated, error, err_missing, err_got,
                   stages, printed>>

\* run returns, or the error leaves it: the process ends, only the files stay
Exit ==
    /\ pc \in {"done", "failed"}
    /\ pc' = "idle"
    /\ api_key_env' = FALSE
    /\ server' = <<>>
    /\ length' = 1
    /\ offset' = 0
    /\ rows' = <<>>
    /\ requests' = <<>>
    /\ sleeps' = 0
    /\ df_raw' = <<>>
    /\ df_month' = <<>>
    /\ df_year' = <<>>
    /\ error' = "none"
    /\ err_missing' = <<>>
    /\ err_got' = {}
    /\ stages' = <<>>
    /\ printed' = <<>>
    /\ UNCHANGED <<file_month, file_year, curated>>

\* a run that never notices the missing credential
KeyMissingNever(env) == FALSE

\* if not api_key: raise SystemExit(...)
KeyMissing(env) == ~env

\* the credential check, Config(...) and Paths.from_base(base_dir)
ResolveCredential ==
    /\ pc = "credential"
    /\ stages' = Append(stages, "credential")
    /\ IF KeyMissing(api_key_env)
       THEN /\ error' = "Configuration"
            /\ pc' = "failed"
            /\ UNCHANGED curated
       ELSE /\ curated' = TRUE
            /\ pc' = "fetch"
            /\ UNCHANGED error
    /\ UNCHANGED <<api_key_env, server, length, offset, rows, requests, sleeps,
                   df_raw, df_month, df_year, file_month, file_year,
                   err_missing, err_got, printed>>

Init ==
    /\ pc = "idle"
    /\ api_key_env = FALSE
    /\ server = <<>>
    /\ length = 1
    /\ offset = 0
    /\ rows = <<>>
    /\ requests = <<>>
    /\ sleeps = 0
    /\ df_raw = <<>>
    /\ df_month = <<>>
    /\ df_year = <<>>
    /\ file_month = NoFile
    /\ file_year = NoFile
    /\ curated = FALSE
    /\ error = "none"
    /\ err_missing = <<>>
    /\ err_got = {}
    /\ stages = <<>>
    /\ printed = <<>>

Next ==
    \/ StartRun
    \/ ResolveCredential
    \/ FetchError
    \/ FetchFullPage
    \/ FetchLastPage
    \/ Normalize
    \/ WriteMonthly
    \/ Aggregate
    \/ WriteAnnual
    \/ Exit

Spec == Init /\ [][Next]_vars

(***************************************************************************)
(* fetch_all_pages on its own, against every bounded data set.             *)
(***************************************************************************)
FetchRecords ==
    {Base,
     RawRecord(<<2020, 6>>, <<"num", 20>>, <<1>>),
     RawRecord(<<2021, 1>>, <<"num", 20>>, <<2>>)}

InitFetch ==
    /\ pc = "fetch"
    /\ api_key_env = TRUE
    /\ server \in SeqsUpTo(FetchRecords, MaxStored)
    /\ length \in 1..MaxLength
    /\ offset = 0
    /\ rows = <<>>
    /\ requests = <<>>
    /\ sleeps = 0
    /\ df_raw = <<>>
    /\ df_month = <<>>
    /\ df_year = <<>>
    /\ file_month = NoFile
    /\ file_year = NoFile
    /\ curated = TRUE
    /\ error = "none"
    /\ err_missing = <<>>
    /\ err_got = {}
    /\ stages = <<"credential">>
    /\ printed = <<>>

NextFetch == FetchError \/ FetchFullPage \/ FetchLastPage

SpecFetch == InitFetch /\ [][NextFetch]_vars

FairFetch == SpecFetch /\ WF_vars(NextFetch)

(***************************************************************************)
(* normalize_monthly and the stages after it, on every bounded batch of     *)
(* records handed over by a stub fetch source.                             *)
(***************************************************************************)
NormalizeRecords ==
    {Base,
     RawRecord(<<2020, 6>>, <<"num", 20>>, <<1>>),
     RawRecord(<<2021, 1>>, <<"numstr", 20>>, <<1>>),
     RawRecord(<<2020, 5>>, <<"num", 10>>, <<2>>),
     RawRecord(<<2020, 5>>, <<"str", 0>>, <<1>>),
     RawRecord(<<2021, 13>>, <<"num", 10>>, <<1>>),
     Base @@ ("countryRegionName" :> <<1>>),
     [Base EXCEPT !.unit = Null],
     Without(Base, {"unit", "countryRegionId"})}
        \cup {Without(Base, {c}) : c \in Range(expected)}

InitNormalize ==
    /\ pc = "normalize"
    /\ api_key_env = TRUE
    /\ server = <<>>
    /\ length = 1
    /\ offset = 0
    /\ rows \in SeqsUpTo(NormalizeRecords, MaxRows)
    /\ requests = <<>>
    /\ sleeps = 0
    /\ df_raw = DataFrame(rows)
    /\ df_month = <<>>
    /\ df_year = <<>>
    /\ file_month = NoFile
    /\ file_year = NoFile
    /\ curated = TRUE
    /\ error = "none"
    /\ err_missing = <<>>
    /\ err_got = {}
    /\ stages = <<"credential", "fetch">>
    /\ printed = <<>>

NextNormalize == Normalize \/ WriteMonthly \/ Aggregate \/ WriteAnnual

SpecNormalize == InitNormalize /\ [][NextNormalize]_vars

(***************************************************************************)
(* Properties of fetch_all_pages (SpecFetch, FairFetch).                   *)
(***************************************************************************)
PageOf(k) == Page(server, requests[k].offset, requests[k].length)

\* C1: fetch_all_pages terminates (the pagination loop is eventually left),
\* and every request but the last one issued was answered by a full page: no
\* request follows the first empty, absent or short page.
C1_Terminates ==
    /\ <>(pc # "fetch")
    /\ [](\A k \in 1..(Len(requests) - 1) : Len(PageOf(k)) = requests[k].length)

\* C1 witness: pagination ended on a short, non-empty third page.
C1_Witness ==
    /\ pc = "normalize"
    /\ Len(requests) = 3
    /\ Len(rows) > 2 * length

\* C2: the k-th request (k = 0, 1, ...) carries offset k*L and length L, and
\* against a server holding N >= 1 records a fetch that returns has issued
\* floor(N/L) + 1 requests and returns exactly the N records in page order.
C2_RequestsAndRecords ==
    /\ \A k \in DOMAIN requests : requests[k] = Request((k - 1) * length, length)
    /\ (pc = "normalize" /\ Len(server) >= 1) =>
          /\ Len(requests) = (Len(server) \div length) + 1
          /\ rows = server
          /\ df_raw = DataFrame(server)

\* C2 witness: N = 2L, so the third request returns an empty page.
C2_Witness ==
    /\ pc = "normalize"
    /\ Len(server) = 2 * length
    /\ Len(requests) = 3
    /\ server[1] # server[2]

FetchCompleted == pc \in {"normalize", "failed"} /\ error # "Transport"

\* C3: once pagination has completed, the EmptyResult error is raised if and
\* only if the very first page was empty or absent (zero records
\* accumulated); otherwise, also when a later page is empty or absent, the
\* records accumulated are returned without error.
C3_EmptyResultIffNothing ==
    /\ pc = "fetch" => error = "none"
    /\ FetchCompleted =>
          /\ (error = "EmptyResult") <=> (Page(server, 0, length) = <<>>)
          /\ error = "EmptyResult" =>
                pc = "failed" /\ Len(requests) = 1 /\ df_raw = <<>>
          /\ error # "EmptyResult" =>
                /\ error = "none"
                /\ pc = "normalize"
                /\ rows = SubSeq(server, 1, Min(Len(requests) * length, Len(server)))
                /\ df_raw = DataFrame(rows)

\* C3 witness: a later page was empty and the fetch returned its records.
C3_Witness ==
    /\ pc = "normalize"
    /\ error = "none"
    /\ Len(requests) >= 2
    /\ PageOf(Len(requests)) = <<>>
    /\ rows # <<>>

\* C9: no page is requested twice, one sleep follows each full page and no
\* other request, and a non-success HTTP status on any request ends
\* fetch_all_pages with the transport error: the failed request is the last
\* one issued, no sleep follows it and no record is returned.
C9_TransportErrorAborts ==
    /\ \A i, j \in DOMAIN requests : i # j => requests[i] # requests[j]
    /\ error = "Transport" =>
          /\ pc = "failed"
          /\ requests # <<>>
          /\ requests[Len(requests)] = Request(offset, length)
          /\ sleeps = Len(requests) - 1
          /\ df_raw = <<>>
          /\ df_month = <<>>

\* C9 witness: a later request failed after records had been accumulated.
C9_Witness ==
    /\ error = "Transport"
    /\ Len(requests) >= 2
    /\ rows # <<>>

(***************************************************************************)
(* Properties of normalize_monthly and build_annual_from_monthly           *)
(* (SpecNormalize).  `rows` holds the raw records handed to the normalizer.*)
(***************************************************************************)
Normalized == "normalize" \in Range(stages) /\ error # "SchemaMismatch"

\* C5: every row of the monthly table has all six required fields present
\* and non-null, a numeric value and a valid date.
C5_AllRequiredNonNull ==
    Normalized =>
        \A i \in DOMAIN df_month :
            /\ \A c \in Range(expected) : df_month[i][c] # Null
            /\ df_month[i].date # Null

RawNumeric(r) ==
    "value" \in DOMAIN r /\ r.value # Null /\ r.value[1] # "str"

RawYearMonth(r) ==
    "period" \in DOMAIN r /\ Len(r.period) = 2 /\ r.period[2] \in 1..12

ValidRecords == SelectSeq(rows, LAMBDA r : RawNumeric(r) /\ RawYearMonth(r))

\* C6: when all six required columns are present, the monthly table has
\* exactly one row per input record with a numeric value and a valid
\* year-month period, in input order (duplicates kept); every other record is
\* dropped without an error; each row keeps its record's period and value,
\* its date is the first day of the period's month and its source is "EIA".
C6_OneRowPerValidRecord ==
    Normalized =>
        /\ Len(df_month) = Len(ValidRecords)
        /\ \A k \in DOMAIN df_month :
              /\ df_month[k].period = ValidRecords[k].period
              /\ df_month[k].value = <<ValidRecords[k].value[2]>>
              /\ df_month[k].date = <<ValidRecords[k].period[1], ValidRecords[k].period[2], 1>>
              /\ df_month[k].source_id = "EIA"
              /\ \A c \in Range(expected) \ {"period", "value"} :
                    df_month[k][c] =
                        IF c \in DOMAIN ValidRecords[k] THEN ValidRecords[k][c] ELSE Null

\* C6 witness: a batch with a non-numeric value, an invalid month and one
\* valid record, of which only the valid one is kept.
C6_Witness ==
    /\ pc = "write_monthly"
    /\ Len(rows) = 3
    /\ Len(df_month) = 1
    /\ \E i \in DOMAIN rows : "value" \in DOMAIN rows[i] /\ rows[i].value = <<"str", 0>>
    /\ \E i \in DOMAIN rows : "period" \in DOMAIN rows[i] /\ rows[i].period = <<2021, 13>>

AbsentFields == {c \in Range(expected) : \A i \in DOMAIN rows : c \notin DOMAIN rows[i]}

\* C7: normalize_monthly fails with the SchemaMismatch error exactly when at
\* least one of the six required fields is absent from the input records; the
\* error names exactly the absent required fields and the fields present, no
\* table is returned and nothing is written.
C7_SchemaMismatch ==
    "normalize" \in Range(stages) =>
        /\ (error = "SchemaMismatch") <=> (AbsentFields # {})
        /\ error = "SchemaMismatch" =>
              /\ pc = "failed"
              /\ Range(err_missing) = AbsentFields
              /\ Len(err_missing) = Cardinality(AbsentFields)
              /\ err_got = UNION {DOMAIN rows[i] : i \in DOMAIN rows}
              /\ df_month = <<>>
              /\ file_month = NoFile

\* C7 witness: two records that both lack "unit" and "countryRegionId".
C7_Witness ==
    /\ error = "SchemaMismatch"
    /\ err_missing = <<"unit", "countryRegionId">>
    /\ Len(rows) = 2

MonthlyKey(r) ==
    <<<<r.date[1]>>, r.countryRegionId, r.activityId, r.productId, r.unit>>

AnnualKey(r) ==
    <<r.year, r.countryRegionId, r.activityId, r.productId, r.unit>>

MonthlyKeys(df) == {MonthlyKey(df[i]) : i \in DOMAIN df}

KeyValues(df, k) ==
    LET members == SelectSeq(df, LAMBDA r : MonthlyKey(r) = k)
    IN  [i \in DOMAIN members |-> members[i].value[1]]

IsAggregateOf(dy, dm) ==
    /\ Len(dy) = Cardinality(MonthlyKeys(dm))
    /\ \A k \in MonthlyKeys(dm) :
          \E i \in DOMAIN dy :
              /\ AnnualKey(dy[i]) = k
              /\ dy[i].value_avg_daily[1] * Len(KeyValues(dm, k))
                    = dy[i].value_avg_daily[2] * SumSeq(KeyValues(dm, k))
              /\ dy[i].method = "mean_of_months"

\* C8: the annual table has exactly one row per distinct grouping key (year,
\* country/region id, activity id, product id, unit) of the monthly table,
\* holding the mean of the values of that key's rows and the method
\* "mean_of_months".
C8_OneRowPerKey ==
    "aggregate" \in Range(stages) => IsAggregateOf(df_year, df_month)

(***************************************************************************)
(* Properties of run (Spec).                                               *)
(***************************************************************************)
StageOrder ==
    <<"credential", "fetch", "normalize", "write_monthly", "aggregate", "write_annual">>

C10_FilesHoldThisRun ==
    pc = "done" =>
        /\ file_month = [exists |-> TRUE, table |-> df_month]
        /\ file_year = [exists |-> TRUE, table |-> df_year]
        /\ Len(file_month.table) = Len(ValidRecords)
        /\ Len(file_year.table) = Cardinality(MonthlyKeys(file_month.table))
        /\ IsAggregateOf(file_year.table, file_month.table)

====
